---------------------------- MODULE Spec2Model ----------------------------
(***************************************************************************)
(* pglens: the table-data route GET /api/tables/:tableName of the server   *)
(* (routes/api.js) with the PostgreSQL table it pages through, and a       *)
(* caller that pages forward with the cursor each response hands back.     *)
(* Further specifications run the route on table names and failing         *)
(* queries, interleave two invocations of it at their awaits, and drive it *)
(* from the browser client (client/app.js) with its tabs and its overlay.  *)
(*                                                                         *)
(* Strings that the code inspects character by character (query-string     *)
(* values, column values) are sequences of one-character strings, so that  *)
(* parseInt, truthiness and ordering are computed and not assumed.         *)
(* Column names are only compared for equality and are TLA+ strings.       *)
(* An optional value is <<>> (absent, undefined, null) or <<v>>.           *)
(***************************************************************************)
EXTENDS Integers, Sequences, FiniteSets, TLC

VARIABLES db, log, caller, flights, client, registry, server

vars == <<db, log, caller, flights, client, registry, server>>

-----------------------------------------------------------------------------
(* Bounds of the model.                                                    *)

\* Largest number of rows of the table.
MaxRows == 3

\* Number of distinct values a column can hold.
KeyCount == 3

\* Largest number of requests one caller session sends.
MaxCalls == 4

\* Rows per page of a new tab, in place of the 100 of the client.
PageSize == 1

\* Largest number of table-data fetches in flight at once.
MaxFetches == 2

\* Largest number of tabs opened in one session.
MaxOpened == 2

\* Largest number of postgres clients the server creates.
MaxPools == 3

-----------------------------------------------------------------------------
(* Optional values and JavaScript numbers.                                 *)

None == <<>>

Some(v) == <<v>>

\* A JavaScript number: an integer or NaN.
Num(n) == [nan |-> FALSE, n |-> n]

NaN == [nan |-> TRUE, n |-> 0]

\* a < b on JavaScript numbers: every comparison with NaN is false.
NumLess(a, b) == ~a.nan /\ ~b.nan /\ a.n < b.n

\* (page - 1) * limit on JavaScript numbers.
OffsetOf(page, limit) ==
  IF page.nan \/ limit.nan THEN NaN ELSE Num((page.n - 1) * limit.n)

Min(a, b) == IF a < b THEN a ELSE b

-----------------------------------------------------------------------------
(* Character strings.                                                      *)

Digits == <<"0", "1", "2", "3", "4", "5", "6", "7", "8", "9">>

IsDigit(c) == \E i \in 1..10 : Digits[i] = c

DigitVal(c) == (CHOOSE i \in 1..10 : Digits[i] = c) - 1

\* The value of a string of decimal digits.
RECURSIVE DecimalValue(_)
DecimalValue(s) ==
  IF s = <<>> THEN 0
  ELSE 10 * DecimalValue(SubSeq(s, 1, Len(s) - 1)) + DigitVal(s[Len(s)])

\* Length of the longest prefix of s made of decimal digits.
RECURSIVE DigitPrefixLen(_)
DigitPrefixLen(s) ==
  IF s = <<>> \/ ~IsDigit(Head(s)) THEN 0 ELSE 1 + DigitPrefixLen(Tail(s))

\* JavaScript parseInt(s, 10): optional sign, then the longest digit prefix;
\* NaN when there is no digit.
ParseInt(s) ==
  LET signed == s # <<>> /\ Head(s) \in {"-", "+"}
      body == IF signed THEN Tail(s) ELSE s
      k == DigitPrefixLen(body)
      mag == DecimalValue(SubSeq(body, 1, k))
  IN IF k = 0 THEN NaN
     ELSE IF signed /\ Head(s) = "-" THEN Num(0 - mag) ELSE Num(mag)

\* The decimal text of a natural number below 100.
ToDecimal(n) ==
  IF n < 10 THEN <<Digits[n + 1]>>
  ELSE <<Digits[(n \div 10) + 1], Digits[(n % 10) + 1]>>

\* The value of the text of an integer, with its sign.
IntegerValue(s) ==
  IF s # <<>> /\ Head(s) = "-" THEN 0 - DecimalValue(Tail(s))
  ELSE IF s # <<>> /\ Head(s) = "+" THEN DecimalValue(Tail(s))
  ELSE DecimalValue(s)

\* The string made of n letters "a".
Letters(n) == [i \in 1..n |-> "a"]

\* JavaScript truthiness of an optional string: undefined and '' are falsy.
Truthy(opt) == opt # None /\ opt[1] # <<>>

\* JavaScript truthiness of an optional column name.
TruthyName(opt) == opt # None /\ opt[1] # ""

\* JavaScript  opt || dflt  on an optional string.
OrDefault(opt, dflt) == IF Truthy(opt) THEN opt[1] ELSE dflt

-----------------------------------------------------------------------------
(* The PostgreSQL table behind the connection's query capability.  The     *)
(* table has the columns id and grp, both of the type tbl.type; tbl.pk is  *)
(* the sequence of its primary-key columns in the order the catalog lists  *)
(* them: none, the column id, or both columns.                             *)

ColumnNames == {"id", "grp"}

ColumnTypes == {"integer", "text"}

\* The i-th value of a type in the type's order: 0, 1, 2 .. for integer and
\* '', 'a', 'aa' .. for text.
ValueAt(type, i) ==
  IF type # "integer" THEN Letters(i)
  ELSE IF i < 0 THEN <<"-">> \o ToDecimal(0 - i) ELSE ToDecimal(i)

ColumnValues(type) == {ValueAt(type, i) : i \in 0..(KeyCount - 1)}

GroupValues(type) == {ValueAt(type, i) : i \in 0..1}

RowsOf(type) == [id : ColumnValues(type), grp : GroupValues(type)]

\* The characters of the model in code-point order.
Alphabet == <<"+", "-">> \o Digits \o <<"a", "x">>

\* Lexicographic order of character strings ('' < 'a' < 'aa').
RECURSIVE TextLess(_, _)
TextLess(a, b) ==
  IF b = <<>> THEN FALSE
  ELSE IF a = <<>> THEN TRUE
  ELSE IF Head(a) = Head(b) THEN TextLess(Tail(a), Tail(b))
  ELSE \E i, j \in 1..Len(Alphabet) :
         i < j /\ Alphabet[i] = Head(a) /\ Alphabet[j] = Head(b)

\* a < b as PostgreSQL compares two values of a column of the given type.
ValueLess(type, a, b) ==
  IF type = "integer" THEN IntegerValue(a) < IntegerValue(b)
  ELSE TextLess(a, b)

\* The columns of the PRIMARY KEY constraint.
PkColumns(tbl) == {tbl.pk[i] : i \in 1..Len(tbl.pk)}

PrimaryKeys == {<<>>, <<"id">>, <<"id", "grp">>, <<"grp", "id">>}

\* A primary key is unique over its columns.
PkUnique(tbl) ==
  \A r1, r2 \in tbl.rows :
    (\A c \in PkColumns(tbl) : r1[c] = r2[c]) => r1 = r2

Tables ==
  {tbl \in [pk : PrimaryKeys,
            type : ColumnTypes,
            rows : UNION {SUBSET RowsOf(t) : t \in ColumnTypes}] :
     /\ tbl.rows \subseteq RowsOf(tbl.type)
     /\ Cardinality(tbl.rows) <= MaxRows
     /\ PkUnique(tbl)}

\* r1 sorts strictly before r2 under ORDER BY orderBy (a sequence of
\* [col, dir]); rows equal on every key are not ordered.
RECURSIVE RowBefore(_, _, _, _)
RowBefore(type, orderBy, r1, r2) ==
  IF orderBy = <<>> THEN FALSE
  ELSE LET k == Head(orderBy)
       IN IF r1[k.col] = r2[k.col]
          THEN RowBefore(type, Tail(orderBy), r1, r2)
          ELSE IF k.dir = "ASC" THEN ValueLess(type, r1[k.col], r2[k.col])
               ELSE ValueLess(type, r2[k.col], r1[k.col])

\* Every order in which PostgreSQL may produce the rows under ORDER BY
\* orderBy: ties, and all rows when there is no ORDER BY, come in any order.
Orderings(type, rows, orderBy) ==
  LET n == Cardinality(rows)
  IN {s \in [1..n -> rows] :
        /\ \A i, j \in 1..n : i # j => s[i] # s[j]
        /\ \A i, j \in 1..n : i < j => ~RowBefore(type, orderBy, s[j], s[i])}

\* A text parameter bound to a comparison with a column of the given type is
\* accepted when it is a literal of that type.
ValidLiteral(type, s) ==
  \/ type = "text"
  \/ LET body == IF s # <<>> /\ Head(s) \in {"-", "+"} THEN Tail(s) ELSE s
     IN body # <<>> /\ DigitPrefixLen(body) = Len(body)

\* pool.query of a data query [where, orderBy, limit, offset] on the table
\* (where is an optional [col, op, val] with op > or >=):
\* the set of results the database may return.  The query fails when a
\* parameter is not a value of its type or a column does not exist.
Execute(tbl, q) ==
  LET bad == \/ q.limit.nan \/ q.limit.n < 0
             \/ (q.offset # None /\ (q.offset[1].nan \/ q.offset[1].n < 0))
             \/ \E i \in 1..Len(q.orderBy) : q.orderBy[i].col \notin ColumnNames
             \/ (q.where # None /\ ~ValidLiteral(tbl.type, q.where[1].val))
      kept == IF q.where = None THEN tbl.rows
              ELSE {r \in tbl.rows :
                      \/ ValueLess(tbl.type, q.where[1].val, r[q.where[1].col])
                      \/ (q.where[1].op = ">=" /\ q.where[1].val = r[q.where[1].col])}
      skip == IF q.offset = None THEN 0 ELSE q.offset[1].n
  IN IF bad THEN {[ok |-> FALSE, rows |-> <<>>]}
     ELSE {[ok |-> TRUE,
            rows |-> SubSeq(s, skip + 1, Min(skip + q.limit.n, Len(s)))] :
             s \in Orderings(tbl.type, kept, q.orderBy)}

-----------------------------------------------------------------------------
(* routes/api.js: GET /api/tables/:tableName.                              *)

\* The property names every JavaScript object inherits from
\* Object.prototype (those the model's requests use).
ObjectPrototypeNames == {"constructor", "toString"}

\* Truthiness of obj[name] for a plain object whose own properties are
\* objects: own properties and inherited ones are truthy, others undefined.
PropertyTruthy(obj, name) ==
  name \in DOMAIN obj \/ name \in ObjectPrototypeNames

\* The name of the table the database holds, and the characters a table
\* name may be made of: /^[a-zA-Z0-9_.]+$/.
TableName == <<"t">>

IdentifierChars ==
  {"a", "b", "c", "d", "e", "f", "g", "h", "i", "j", "k", "l", "m", "n", "o",
   "p", "q", "r", "s", "t", "u", "v", "w", "x", "y", "z",
   "A", "B", "C", "D", "E", "F", "G", "H", "I", "J", "K", "L", "M", "N", "O",
   "P", "Q", "R", "S", "T", "U", "V", "W", "X", "Y", "Z",
   "0", "1", "2", "3", "4", "5", "6", "7", "8", "9", "_", "."}

\* sanitizeTableName returns the name (TRUE) or throws (FALSE).
sanitizeTableName(tableName) ==
  tableName # <<>> /\ \A i \in 1..Len(tableName) : tableName[i] \in IdentifierChars

\* The catalog queries and the count and data queries of one request, by
\* the step that sends them; failing is the set of steps whose query fails.
QuerySteps ==
  {"primaryKey", "columns", "primaryKeys", "foreignKeys", "unique",
   "count", "data"}

\* The table a (sanitized) name denotes in the public schema, if any.
TableNamed(tbl, tableName) == IF tableName = TableName THEN Some(tbl) ELSE None

\* The model's table carries UNIQUE (id, grp) and a foreign key from grp.
UniqueColumns(tbl) == {"id", "grp"}

ForeignKeys(tbl) == [c \in {"grp"} |-> [table |-> "groups", column |-> "id"]]

\* getPrimaryKeyColumn: the first row of the primary-key column lookup
\* (LIMIT 1), or null when there is none or the lookup fails.
getPrimaryKeyColumn(t, failing) ==
  IF "primaryKey" \in failing \/ t = None \/ t[1].pk = <<>> THEN None
  ELSE Some(Head(t[1].pk))

\* getPrimaryKeyColumns: the set of key columns, empty when the lookup fails.
getPrimaryKeyColumns(t, failing) ==
  IF "primaryKeys" \in failing \/ t = None THEN {} ELSE PkColumns(t[1])

\* getForeignKeyRelations: column -> { table, column }, {} when it fails.
getForeignKeyRelations(t, failing) ==
  IF "foreignKeys" \in failing \/ t = None
  THEN [c \in {} |-> [table |-> "", column |-> ""]]
  ELSE ForeignKeys(t[1])

\* getUniqueColumns: the set of UNIQUE columns, empty when the lookup fails.
getUniqueColumns(t, failing) ==
  IF "unique" \in failing \/ t = None THEN {} ELSE UniqueColumns(t[1])

\* getColumnMetadata: the object mapping each column name to its metadata;
\* the empty object when the column-list query fails.
getColumnMetadata(t, failing) ==
  LET primaryKeyColumns == getPrimaryKeyColumns(t, failing)
      foreignKeyRelations == getForeignKeyRelations(t, failing)
      uniqueColumns == getUniqueColumns(t, failing)
      names == IF "columns" \in failing \/ t = None THEN {} ELSE ColumnNames
  IN [c \in names |->
        [dataType |-> t[1].type,
         isPrimaryKey |-> c \in primaryKeyColumns,
         isForeignKey |-> c \in DOMAIN foreignKeyRelations,
         foreignKeyRef |-> IF c \in DOMAIN foreignKeyRelations
                           THEN Some(foreignKeyRelations[c]) ELSE None,
         isUnique |-> c \in uniqueColumns]]

\* The lookups with the count query sent ahead of the sort-column check.
LookupQueries_WithCount(failing) ==
  (IF "columns" \in failing THEN <<"primaryKey", "columns">>
   ELSE <<"primaryKey", "columns", "primaryKeys", "foreignKeys", "unique">>)
  \o <<"count">>

\* The queries getPrimaryKeyColumn and getColumnMetadata send: a failure of
\* the column-list query skips the three lookups that follow it.
LookupQueries(failing) ==
  IF "columns" \in failing THEN <<"primaryKey", "columns">>
  ELSE <<"primaryKey", "columns", "primaryKeys", "foreignKeys", "unique">>

\* The failures no try/catch of a helper swallows: they reach the catch of
\* the route and end the request with HTTP 500.
Uncaught_All(failing) == failing

Uncaught(failing) == failing \cap {"count", "data"}

\* countQuery restricted by the predicate of the data query.
countQuery_Filtered(t, plan) ==
  Cardinality(IF plan.where = None THEN t[1].rows
              ELSE {r \in t[1].rows :
                      ValueLess(t[1].type, plan.where[1].val,
                                r[plan.where[1].col])})

\* SELECT COUNT(*) as total FROM "tableName": the rows of the whole table.
countQuery(t, plan) == Cardinality(t[1].rows)

\* The query parameters as the handler reads them.
PageOf(req) == ParseInt(OrDefault(req.page, <<"1">>))

LimitOf(req) == ParseInt(OrDefault(req.limit, <<"1", "0", "0">>))

SortColumnOf(req) == IF TruthyName(req.sortColumn) THEN req.sortColumn ELSE None

SortDirectionOf(req) == IF req.sortDirection = Some("desc") THEN "DESC" ELSE "ASC"

\* The validation with the bounds off by one: page 1 and limit 1 rejected.
BadPagination_OffByOne(page, limit) ==
  ~NumLess(Num(1), page) \/ ~NumLess(Num(1), limit)

\* The validation that looks at page only.
BadPagination_PageOnly(page, limit) == NumLess(page, Num(1))

\* if (page < 1 || limit < 1) return 400
BadPagination(page, limit) == NumLess(page, Num(1)) \/ NumLess(limit, Num(1))

\* if (sortColumn && !columnMetadata[sortColumn]) return 400
BadSortColumn(sortColumn, columnMetadata) ==
  sortColumn # None /\ ~PropertyTruthy(columnMetadata, sortColumn[1])

\* The chain with the cursor branch tested before the sorted branch.
PlanQuery_CursorBeforeSort(page, limit, cursor, sortColumn, sortDirection, primaryKeyColumn) ==
  IF primaryKeyColumn # None /\ Truthy(cursor) THEN
    [branch |-> "cursor",
     where |-> Some([col |-> primaryKeyColumn[1], op |-> ">",
                     val |-> cursor[1]]),
     orderBy |-> <<[col |-> primaryKeyColumn[1], dir |-> "ASC"]>>,
     limit |-> limit,
     offset |-> None]
  ELSE IF sortColumn # None THEN
    [branch |-> "sorted",
     where |-> None,
     orderBy |-> <<[col |-> sortColumn[1], dir |-> sortDirection]>> \o
                 (IF primaryKeyColumn # None /\ sortColumn # primaryKeyColumn
                  THEN <<[col |-> primaryKeyColumn[1], dir |-> "ASC"]>>
                  ELSE <<>>),
     limit |-> limit,
     offset |-> Some(OffsetOf(page, limit))]
  ELSE IF primaryKeyColumn # None /\ page = Num(1) THEN
    [branch |-> "firstPage",
     where |-> None,
     orderBy |-> <<[col |-> primaryKeyColumn[1], dir |-> "ASC"]>>,
     limit |-> limit,
     offset |-> None]
  ELSE
    [branch |-> "fallback",
     where |-> None,
     orderBy |-> IF primaryKeyColumn # None
                 THEN <<[col |-> primaryKeyColumn[1], dir |-> "ASC"]>>
                 ELSE <<>>,
     limit |-> limit,
     offset |-> Some(OffsetOf(page, limit))]

\* The chain without the first-page branch: page 1 goes to the fallback.
PlanQuery_NoFirstPage(page, limit, cursor, sortColumn, sortDirection, primaryKeyColumn) ==
  IF sortColumn # None THEN
    [branch |-> "sorted",
     where |-> None,
     orderBy |-> <<[col |-> sortColumn[1], dir |-> sortDirection]>> \o
                 (IF primaryKeyColumn # None /\ sortColumn # primaryKeyColumn
                  THEN <<[col |-> primaryKeyColumn[1], dir |-> "ASC"]>>
                  ELSE <<>>),
     limit |-> limit,
     offset |-> Some(OffsetOf(page, limit))]
  ELSE IF primaryKeyColumn # None /\ Truthy(cursor) THEN
    [branch |-> "cursor",
     where |-> Some([col |-> primaryKeyColumn[1], op |-> ">",
                     val |-> cursor[1]]),
     orderBy |-> <<[col |-> primaryKeyColumn[1], dir |-> "ASC"]>>,
     limit |-> limit,
     offset |-> None]
  ELSE
    [branch |-> "fallback",
     where |-> None,
     orderBy |-> IF primaryKeyColumn # None
                 THEN <<[col |-> primaryKeyColumn[1], dir |-> "ASC"]>>
                 ELSE <<>>,
     limit |-> limit,
     offset |-> Some(OffsetOf(page, limit))]

\* The chain with an inclusive cursor predicate (key >= cursor).
PlanQuery_InclusiveCursor(page, limit, cursor, sortColumn, sortDirection, primaryKeyColumn) ==
  IF sortColumn # None THEN
    [branch |-> "sorted",
     where |-> None,
     orderBy |-> <<[col |-> sortColumn[1], dir |-> sortDirection]>> \o
                 (IF primaryKeyColumn # None /\ sortColumn # primaryKeyColumn
                  THEN <<[col |-> primaryKeyColumn[1], dir |-> "ASC"]>>
                  ELSE <<>>),
     limit |-> limit,
     offset |-> Some(OffsetOf(page, limit))]
  ELSE IF primaryKeyColumn # None /\ Truthy(cursor) THEN
    [branch |-> "cursor",
     where |-> Some([col |-> primaryKeyColumn[1], op |-> ">=",
                     val |-> cursor[1]]),
     orderBy |-> <<[col |-> primaryKeyColumn[1], dir |-> "ASC"]>>,
     limit |-> limit,
     offset |-> None]
  ELSE IF primaryKeyColumn # None /\ page = Num(1) THEN
    [branch |-> "firstPage",
     where |-> None,
     orderBy |-> <<[col |-> primaryKeyColumn[1], dir |-> "ASC"]>>,
     limit |-> limit,
     offset |-> None]
  ELSE
    [branch |-> "fallback",
     where |-> None,
     orderBy |-> IF primaryKeyColumn # None
                 THEN <<[col |-> primaryKeyColumn[1], dir |-> "ASC"]>>
                 ELSE <<>>,
     limit |-> limit,
     offset |-> Some(OffsetOf(page, limit))]

\* The chain with a first-page query that has no ORDER BY.
PlanQuery_UnorderedFirstPage(page, limit, cursor, sortColumn, sortDirection, primaryKeyColumn) ==
  IF sortColumn # None THEN
    [branch |-> "sorted",
     where |-> None,
     orderBy |-> <<[col |-> sortColumn[1], dir |-> sortDirection]>> \o
                 (IF primaryKeyColumn # None /\ sortColumn # primaryKeyColumn
                  THEN <<[col |-> primaryKeyColumn[1], dir |-> "ASC"]>>
                  ELSE <<>>),
     limit |-> limit,
     offset |-> Some(OffsetOf(page, limit))]
  ELSE IF primaryKeyColumn # None /\ Truthy(cursor) THEN
    [branch |-> "cursor",
     where |-> Some([col |-> primaryKeyColumn[1], op |-> ">",
                     val |-> cursor[1]]),
     orderBy |-> <<[col |-> primaryKeyColumn[1], dir |-> "ASC"]>>,
     limit |-> limit,
     offset |-> None]
  ELSE IF primaryKeyColumn # None /\ page = Num(1) THEN
    [branch |-> "firstPage",
     where |-> None,
     orderBy |-> <<>>,
     limit |-> limit,
     offset |-> None]
  ELSE
    [branch |-> "fallback",
     where |-> None,
     orderBy |-> IF primaryKeyColumn # None
                 THEN <<[col |-> primaryKeyColumn[1], dir |-> "ASC"]>>
                 ELSE <<>>,
     limit |-> limit,
     offset |-> Some(OffsetOf(page, limit))]

\* The chain whose sorted query appends the key column even when it is
\* the sort column.
PlanQuery_AlwaysTiebreak(page, limit, cursor, sortColumn, sortDirection, primaryKeyColumn) ==
  IF sortColumn # None THEN
    [branch |-> "sorted",
     where |-> None,
     orderBy |-> <<[col |-> sortColumn[1], dir |-> sortDirection]>> \o
                 (IF primaryKeyColumn # None
                  THEN <<[col |-> primaryKeyColumn[1], dir |-> "ASC"]>>
                  ELSE <<>>),
     limit |-> limit,
     offset |-> Some(OffsetOf(page, limit))]
  ELSE IF primaryKeyColumn # None /\ Truthy(cursor) THEN
    [branch |-> "cursor",
     where |-> Some([col |-> primaryKeyColumn[1], op |-> ">",
                     val |-> cursor[1]]),
     orderBy |-> <<[col |-> primaryKeyColumn[1], dir |-> "ASC"]>>,
     limit |-> limit,
     offset |-> None]
  ELSE IF primaryKeyColumn # None /\ page = Num(1) THEN
    [branch |-> "firstPage",
     where |-> None,
     orderBy |-> <<[col |-> primaryKeyColumn[1], dir |-> "ASC"]>>,
     limit |-> limit,
     offset |-> None]
  ELSE
    [branch |-> "fallback",
     where |-> None,
     orderBy |-> IF primaryKeyColumn # None
                 THEN <<[col |-> primaryKeyColumn[1], dir |-> "ASC"]>>
                 ELSE <<>>,
     limit |-> limit,
     offset |-> Some(OffsetOf(page, limit))]

\* The if / else-if chain that picks the data query: the branch taken and
\* the query it issues.
PlanQuery(page, limit, cursor, sortColumn, sortDirection, primaryKeyColumn) ==
  IF sortColumn # None THEN
    [branch |-> "sorted",
     where |-> None,
     orderBy |-> <<[col |-> sortColumn[1], dir |-> sortDirection]>> \o
                 (IF primaryKeyColumn # None /\ sortColumn # primaryKeyColumn
                  THEN <<[col |-> primaryKeyColumn[1], dir |-> "ASC"]>>
                  ELSE <<>>),
     limit |-> limit,
     offset |-> Some(OffsetOf(page, limit))]
  ELSE IF primaryKeyColumn # None /\ Truthy(cursor) THEN
    [branch |-> "cursor",
     where |-> Some([col |-> primaryKeyColumn[1], op |-> ">",
                     val |-> cursor[1]]),
     orderBy |-> <<[col |-> primaryKeyColumn[1], dir |-> "ASC"]>>,
     limit |-> limit,
     offset |-> None]
  ELSE IF primaryKeyColumn # None /\ page = Num(1) THEN
    [branch |-> "firstPage",
     where |-> None,
     orderBy |-> <<[col |-> primaryKeyColumn[1], dir |-> "ASC"]>>,
     limit |-> limit,
     offset |-> None]
  ELSE
    [branch |-> "fallback",
     where |-> None,
     orderBy |-> IF primaryKeyColumn # None
                 THEN <<[col |-> primaryKeyColumn[1], dir |-> "ASC"]>>
                 ELSE <<>>,
     limit |-> limit,
     offset |-> Some(OffsetOf(page, limit))]

\* nextCursor computed by the cursor and first-page branches only: the
\* fallback branch hands back no cursor.
NextCursor_NoneOnFallback(branch, primaryKeyColumn, rows) ==
  IF branch \in {"sorted", "fallback"} THEN None
  ELSE IF primaryKeyColumn # None /\ Len(rows) > 0
       THEN Some(rows[Len(rows)][primaryKeyColumn[1]])
       ELSE None

\* nextCursor with the row test off by one: null is handed back when a
\* single row is returned.
NextCursor_NullOnLastRow(branch, primaryKeyColumn, rows) ==
  IF branch = "sorted" THEN None
  ELSE IF primaryKeyColumn # None /\ Len(rows) > 1
       THEN Some(rows[Len(rows)][primaryKeyColumn[1]])
       ELSE None

\* nextCursor as each branch computes it from the rows of the data query.
NextCursor(branch, primaryKeyColumn, rows) ==
  IF branch = "sorted" THEN None
  ELSE IF primaryKeyColumn # None /\ Len(rows) > 0
       THEN Some(rows[Len(rows)][primaryKeyColumn[1]])
       ELSE None

NoQuery == [branch |-> "none", where |-> None, orderBy |-> <<>>,
            limit |-> NaN, offset |-> None]

\* The handler run on one request for the table named tableName, with the
\* queries of the steps in failing failing: every outcome it can have, as
\* [tableName, req, failing, queries, plan, resp] with the queries sent
\* through pool.query in order, the data query planned and the response.
ServeTableData(tbl, tableName, req, failing) ==
  LET page == PageOf(req)
      limit == LimitOf(req)
      sortColumn == SortColumnOf(req)
      t == TableNamed(tbl, tableName)
      primaryKeyColumn == getPrimaryKeyColumn(t, failing)
      columnMetadata == getColumnMetadata(t, failing)
      lookups == LookupQueries(failing)
      plan == PlanQuery(page, limit, req.cursor, sortColumn,
                        SortDirectionOf(req), primaryKeyColumn)
      call(queries, planned, resp) ==
        [tableName |-> tableName, req |-> req, failing |-> failing,
         queries |-> queries, plan |-> planned, resp |-> resp]
      failed == [status |-> 500, error |-> "query failed"]
  IN IF ~sanitizeTableName(tableName) THEN
       {call(<<>>, NoQuery, [status |-> 500, error |-> "Invalid table name"])}
     ELSE IF BadPagination(page, limit) THEN
       {call(<<>>, NoQuery,
             [status |-> 400,
              error |-> "Page and limit must be positive integers"])}
     ELSE IF BadSortColumn(sortColumn, columnMetadata) THEN
       {call(lookups, NoQuery,
             [status |-> 400, error |-> "Invalid sort column"])}
     ELSE IF t = None \/ "count" \in Uncaught(failing) THEN
       {call(lookups \o <<"count">>, NoQuery, failed)}
     ELSE IF Uncaught(failing) # {} THEN
       {call(lookups \o <<"count", "data">>, plan, failed)}
     ELSE
       {call(lookups \o <<"count", "data">>, plan,
             IF res.ok
             THEN [status |-> 200,
                   rows |-> res.rows,
                   totalCount |-> countQuery(t, plan),
                   page |-> page,
                   limit |-> limit,
                   isApproximate |-> FALSE,
                   nextCursor |-> NextCursor(plan.branch, primaryKeyColumn,
                                             res.rows),
                   hasPrimaryKey |-> primaryKeyColumn # None,
                   columns |-> columnMetadata]
             ELSE failed) :
          res \in Execute(tbl, plan)}

\* The handler on a request for the table of the database, all of whose
\* queries reach the database.
HandleTableData(tbl, req) == ServeTableData(tbl, TableName, req, {})

-----------------------------------------------------------------------------
(* Requests.                                                               *)

PageParams == {None, Some(<<"x">>)} \cup {Some(ToDecimal(i)) : i \in 0..2}

LimitParams == {None} \cup {Some(ToDecimal(i)) : i \in 0..2}

\* No cursor, the empty string, and the second value of each column type.
CursorParams ==
  {None, Some(<<>>)} \cup {Some(ValueAt(t, 1)) : t \in ColumnTypes}

SortColumnParams ==
  {None, Some(""), Some("id"), Some("grp"), Some("nope"), Some("constructor")}

SortDirectionParams == {None, Some("desc")}

\* A sortDirection is only sent along with a sortColumn.
Requests ==
  {req \in [page : PageParams, limit : LimitParams, cursor : CursorParams,
            sortColumn : SortColumnParams,
            sortDirection : SortDirectionParams] :
     req.sortDirection # None => TruthyName(req.sortColumn)}

-----------------------------------------------------------------------------
(* The system: the table, the log of the calls served, and the pagination  *)
(* state the caller holds (the server holds none).                         *)

NotStarted == [page |-> 0, limit |-> 0, sortColumn |-> None, cursor |-> None]

\* The invocations of the route handler that can be in progress at once.
RequestIds == {1, 2}

NoRequest ==
  [page |-> None, limit |-> None, cursor |-> None, sortColumn |-> None,
   sortDirection |-> None]

\* The const and let bindings of one invocation of the handler.
NoLocals ==
  [page |-> NaN, limit |-> NaN, sortColumn |-> None, sortDirection |-> "ASC",
   primaryKeyColumn |-> None, columnMetadata |-> getColumnMetadata(None, {}),
   totalCount |-> 0]

\* Every invocation idle: stage is the await an invocation is suspended
\* at, req the HTTP request it serves, locals its bindings; overlapped
\* records that another invocation was in progress when it began.
IdleFlights ==
  [stage |-> [i \in RequestIds |-> "idle"],
   req |-> [i \in RequestIds |-> NoRequest],
   overlapped |-> [i \in RequestIds |-> FALSE],
   locals |-> [i \in RequestIds |-> NoLocals]]

\* The registry of the server: the ids of the live connections, and the
\* ids handed out so far (crypto.randomUUID never repeats one).
NoConnections == [live |-> {}, issued |-> {}]

\* The server before any connection is made: no entry in connections, no
\* id handed out, no client created or ended, no call suspended.
NoServer ==
  [connections |-> [id \in {} |-> 0],
   issued |-> 0,
   created |-> 0,
   ended |-> {},
   pending |-> {},
   last |-> [op |-> "", id |-> 0, error |-> ""]]

\* The browser before any connection is made.
NoTableView == [kind |-> "placeholder", tid |-> 0, source |-> 0, rows |-> <<>>]

ClientInit ==
  [connections |-> <<>>,
   activeConnectionId |-> None,
   tabs |-> <<>>,
   activeTabIndex |-> -1,
   opened |-> 0,
   overlay |-> FALSE,
   fetches |-> <<>>,
   disconnecting |-> {},
   tableView |-> NoTableView,
   pagination |-> None]

Init ==
  /\ db \in Tables
  /\ log = <<>>
  /\ caller = NotStarted
  /\ flights = IdleFlights
  /\ client = ClientInit
  /\ registry = NoConnections
  /\ server = NoServer

\* The server serves one request of any shape.
GetTableData(req) ==
  /\ log = <<>>
  /\ \E call \in HandleTableData(db, req) : log' = <<call>>
  /\ UNCHANGED <<db, caller, flights, client, registry, server>>

Next == \E req \in Requests : GetTableData(req)

Spec == Init /\ [][Next]_vars

\* The request the caller derives from the state it holds.
CallerRequest(c) ==
  [page |-> Some(ToDecimal(c.page)),
   limit |-> Some(ToDecimal(c.limit)),
   cursor |-> c.cursor,
   sortColumn |-> c.sortColumn,
   sortDirection |-> None]

\* What the caller holds after a call: the page it asked for and the
\* nextCursor of the response.
CallerAfter(c, call) ==
  [c EXCEPT !.cursor = IF call.resp.status = 200
                       THEN call.resp.nextCursor ELSE None]

\* The caller opens the table: page 1, no cursor.
CallerFirstPage(limit, sortColumn) ==
  /\ caller = NotStarted
  /\ log = <<>>
  /\ LET c == [page |-> 1, limit |-> limit, sortColumn |-> sortColumn,
               cursor |-> None]
     IN \E call \in HandleTableData(db, CallerRequest(c)) :
          /\ log' = <<call>>
          /\ caller' = CallerAfter(c, call)
  /\ UNCHANGED <<db, flights, client, registry, server>>

\* The caller asks for the next page with the nextCursor it was handed.
CallerNextPage ==
  /\ caller.page >= 1
  /\ Len(log) < MaxCalls
  /\ log[Len(log)].resp.status = 200
  /\ LET c == [caller EXCEPT !.page = caller.page + 1]
     IN \E call \in HandleTableData(db, CallerRequest(c)) :
          /\ log' = Append(log, call)
          /\ caller' = CallerAfter(c, call)
  /\ UNCHANGED <<db, flights, client, registry, server>>

\* The caller asks for page 1 a second time, again with no cursor.
CallerFirstPageAgain ==
  /\ caller.page = 1
  /\ Len(log) = 1
  /\ \E call \in HandleTableData(db, log[1].req) :
       /\ log' = Append(log, call)
       /\ caller' = NotStarted
  /\ UNCHANGED <<db, flights, client, registry, server>>

NextCaller ==
  \/ \E limit \in 1..2, sortColumn \in {None, Some("id"), Some("grp")} :
       CallerFirstPage(limit, sortColumn)
  \/ CallerNextPage
  \/ CallerFirstPageAgain

SpecCaller == Init /\ [][NextCaller]_vars

\* Requests that exercise the validation: table names inside and outside
\* the identifier alphabet, page and limit of every sign and shape.
TableNames ==
  {TableName, <<"u">>, <<"p", ".", "t">>, <<"t", ";", "x">>, <<"t", " ">>,
   <<"\"", "t">>}

ValidationPageParams ==
  {None, Some(<<"x">>), Some(<<"-", "1">>), Some(<<"0">>), Some(<<"1">>),
   Some(<<"2", "x">>)}

ValidationLimitParams ==
  {None, Some(<<"-", "1">>), Some(<<"0">>), Some(<<"1">>)}

ValidationRequests ==
  [page : ValidationPageParams, limit : ValidationLimitParams,
   cursor : {None}, sortColumn : {None, Some("id"), Some("nope")},
   sortDirection : {None}]

\* The server serves one request for a table of any name.
GetNamedTableData(tableName, req) ==
  /\ log = <<>>
  /\ \E call \in ServeTableData(db, tableName, req, {}) : log' = <<call>>
  /\ UNCHANGED <<db, caller, flights, client, registry, server>>

NextValidation ==
  \E tableName \in TableNames, req \in ValidationRequests :
    GetNamedTableData(tableName, req)

SpecValidation == Init /\ [][NextValidation]_vars

\* Requests served while some of the queries fail.
FaultRequests ==
  [page : {None}, limit : {Some(<<"1">>)},
   cursor : {None, Some(<<"1">>)}, sortColumn : {None, Some("grp")},
   sortDirection : {None}]

\* The server serves one request; the queries of the steps in failing fail.
GetTableDataFailing(req, failing) ==
  /\ log = <<>>
  /\ \E call \in ServeTableData(db, TableName, req, failing) : log' = <<call>>
  /\ UNCHANGED <<db, caller, flights, client, registry, server>>

NextFaults ==
  \E req \in FaultRequests, failing \in SUBSET QuerySteps :
    GetTableDataFailing(req, failing)

SpecFaults == Init /\ [][NextFaults]_vars

-----------------------------------------------------------------------------
(* Concurrent requests: Node runs one invocation of the async handler per  *)
(* request and switches between them at their awaits.                      *)

ConcurrentTables ==
  {tbl \in Tables : tbl.type = "integer" /\ Cardinality(tbl.rows) = 2}

ConcurrentRequests ==
  {req \in [page : {Some(<<"1">>), Some(<<"2">>)}, limit : {Some(<<"1">>)},
            cursor : {None, Some(<<"0">>)},
            sortColumn : {None, Some("grp"), Some("nope")},
            sortDirection : {None}] :
     req.cursor # None => req.page = Some(<<"2">>) /\ req.sortColumn = None}

\* The bindings of invocation i all live in one module-level slot.
Slot_Shared(i) == 1

\* Where the bindings of invocation i live: in its own closure.
Slot(i) == i

Locals(i) == flights.locals[Slot(i)]

InProgress(i) == flights.stage[i] \notin {"idle", "done"}

\* The response of invocation i leaves: the call is logged.
Respond(i, queries, plan, resp) ==
  log' = Append(log, [tableName |-> TableName, req |-> flights.req[i],
                      failing |-> {}, queries |-> queries, plan |-> plan,
                      resp |-> resp])

\* The request arrives: the handler runs to its first await, the primary
\* key lookup, or answers 400.
Receive(i, req) ==
  /\ flights.stage[i] = "idle"
  /\ LET page == PageOf(req)
         limit == LimitOf(req)
         bound == [NoLocals EXCEPT !.page = page, !.limit = limit,
                                   !.sortColumn = SortColumnOf(req),
                                   !.sortDirection = SortDirectionOf(req)]
         bad == BadPagination(page, limit)
     IN /\ flights' =
             [flights EXCEPT !.stage[i] = IF bad THEN "done" ELSE "primaryKey",
                             !.req[i] = req,
                             !.overlapped[i] =
                               \E j \in RequestIds \ {i} : InProgress(j),
                             !.locals[Slot(i)] = bound]
        /\ IF bad
           THEN Respond(i, <<>>, NoQuery,
                        [status |-> 400,
                         error |-> "Page and limit must be positive integers"])
           ELSE UNCHANGED log
  /\ UNCHANGED <<db, caller, client, registry, server>>

\* await getPrimaryKeyColumn resolves; getColumnMetadata is called.
PrimaryKeyResolved(i) ==
  /\ flights.stage[i] = "primaryKey"
  /\ flights' =
       [flights EXCEPT !.stage[i] = "columns",
                       !.locals[Slot(i)].primaryKeyColumn =
                         getPrimaryKeyColumn(Some(db), {})]
  /\ UNCHANGED <<db, log, caller, client, registry, server>>

\* await getColumnMetadata resolves; the sort column is checked and the
\* count query sent.
ColumnMetadataResolved(i) ==
  /\ flights.stage[i] = "columns"
  /\ LET columnMetadata == getColumnMetadata(Some(db), {})
         bad == BadSortColumn(Locals(i).sortColumn, columnMetadata)
     IN /\ flights' =
             [flights EXCEPT !.stage[i] = IF bad THEN "done" ELSE "count",
                             !.locals[Slot(i)].columnMetadata = columnMetadata]
        /\ IF bad
           THEN Respond(i, LookupQueries({}), NoQuery,
                        [status |-> 400, error |-> "Invalid sort column"])
           ELSE UNCHANGED log
  /\ UNCHANGED <<db, caller, client, registry, server>>

\* await pool.query(countQuery) resolves; the data query is sent.
CountResolved(i) ==
  /\ flights.stage[i] = "count"
  /\ flights' =
       [flights EXCEPT !.stage[i] = "data",
                       !.locals[Slot(i)].totalCount =
                         countQuery(Some(db), NoQuery)]
  /\ UNCHANGED <<db, log, caller, client, registry, server>>

\* await pool.query(data query) resolves (or rejects); res.json is sent.
DataResolved(i) ==
  /\ flights.stage[i] = "data"
  /\ LET l == Locals(i)
         plan == PlanQuery(l.page, l.limit, flights.req[i].cursor,
                           l.sortColumn, l.sortDirection, l.primaryKeyColumn)
     IN \E res \in Execute(db, plan) :
          Respond(i, LookupQueries({}) \o <<"count", "data">>, plan,
                  IF res.ok
                  THEN [status |-> 200,
                        rows |-> res.rows,
                        totalCount |-> l.totalCount,
                        page |-> l.page,
                        limit |-> l.limit,
                        isApproximate |-> FALSE,
                        nextCursor |-> NextCursor(plan.branch,
                                                  l.primaryKeyColumn, res.rows),
                        hasPrimaryKey |-> l.primaryKeyColumn # None,
                        columns |-> l.columnMetadata]
                  ELSE [status |-> 500, error |-> "query failed"])
  /\ flights' = [flights EXCEPT !.stage[i] = "done"]
  /\ UNCHANGED <<db, caller, client, registry, server>>

InitConcurrent ==
  /\ db \in ConcurrentTables
  /\ log = <<>>
  /\ caller = NotStarted
  /\ flights = IdleFlights
  /\ client = ClientInit
  /\ registry = NoConnections
  /\ server = NoServer

NextConcurrent ==
  \E i \in RequestIds :
    \/ \E req \in ConcurrentRequests : Receive(i, req)
    \/ PrimaryKeyResolved(i)
    \/ ColumnMetadataResolved(i)
    \/ CountResolved(i)
    \/ DataResolved(i)

SpecConcurrent == InitConcurrent /\ [][NextConcurrent]_vars

-----------------------------------------------------------------------------
(* The browser client (client/app.js): connections, tabs, the loading      *)
(* overlay and the table-data fetches in flight, against a server that     *)
(* keeps the registry of connections.                                      *)

ConnectionIds == {"A", "B"}

\* The tables the sidebar lists for a connection, and what each holds: the
\* table t of connection A is the table of the model, every other one is a
\* table of the same shape without rows.
TablesOf(connectionId) ==
  IF connectionId = "A" THEN {TableName, <<"e">>} ELSE {<<"e">>}

TableContent(connectionId, tableName) ==
  IF connectionId = "A" /\ tableName = TableName THEN db
  ELSE [db EXCEPT !.rows = {}]

ClientTables ==
  {tbl \in Tables :
     /\ tbl.type = "integer"
     /\ tbl.pk \in {<<>>, <<"id">>}
     /\ Cardinality(tbl.rows) >= 2
     /\ \A r \in tbl.rows : r.grp = ValueAt(tbl.type, 0)
     /\ \E first \in 0..1 :
          {r.id : r \in tbl.rows} =
            {ValueAt(tbl.type, first + k) : k \in 0..(Cardinality(tbl.rows) - 1)}}

\* The rows-per-page choices of limitSelect.
LimitOptions == {PageSize, 2 * PageSize}

\* JavaScript truthiness of a column value as pg hands it over: a number
\* for an integer column (0 is falsy), a string for a text column.
TruthyValue(type, v) == IF type = "integer" THEN v # <<"0">> ELSE v # <<>>

TruthyCursor(cursor) == cursor # None /\ TruthyValue(db.type, cursor[1])

\* The tab object handleTableSelect creates; tid tells tab objects apart.
NewTab(tid, connectionId, tableName) ==
  [tid |-> tid,
   connectionId |-> connectionId,
   tableName |-> tableName,
   page |-> 1,
   totalCount |-> 0,
   sortColumn |-> None,
   sortDirection |-> "asc",
   data |-> None,
   cursor |-> None,
   cursorHistory |-> <<>>,
   hasPrimaryKey |-> FALSE,
   limit |-> PageSize]

HasActiveTab(c) == c.activeTabIndex >= 0 /\ c.activeTabIndex < Len(c.tabs)

getActiveTab(c) == c.tabs[c.activeTabIndex + 1]

\* The sequence without its k-th element.
Without(s, k) == SubSeq(s, 1, k - 1) \o SubSeq(s, k + 1, Len(s))

\* The query string loadTableData builds from the tab.
QueryOf(tab) ==
  [page |-> Some(ToDecimal(tab.page)),
   limit |-> Some(ToDecimal(tab.limit)),
   cursor |-> IF tab.hasPrimaryKey /\ TruthyCursor(tab.cursor) /\ tab.page > 1
                 /\ tab.sortColumn = None
              THEN tab.cursor ELSE None,
   sortColumn |-> tab.sortColumn,
   sortDirection |-> IF tab.sortColumn # None THEN Some(tab.sortDirection)
                     ELSE None]

\* hideLoading: loadingOverlay.style.display = 'none'.
hideLoading(c) == [c EXCEPT !.overlay = FALSE]

\* loadTableData up to its await: the overlay is shown and the fetch of
\* the active tab's page is sent; caller is the function that called it.
loadTableData(c, caller_) ==
  IF ~HasActiveTab(c) THEN c
  ELSE LET tab == getActiveTab(c)
       IN [c EXCEPT !.overlay = TRUE,
                    !.fetches = Append(@, [caller |-> caller_,
                                           tid |-> tab.tid,
                                           connectionId |-> tab.connectionId,
                                           tableName |-> tab.tableName,
                                           req |-> QueryOf(tab)])]

\* renderTable(data): the rows are drawn for the tab that is active now;
\* source is the tab whose load fetched them.
renderTable(c, rows, source) ==
  IF ~HasActiveTab(c) THEN c
  ELSE [c EXCEPT !.tableView = [kind |-> "table", tid |-> getActiveTab(c).tid,
                                source |-> source, rows |-> rows]]

\* Math.ceil(totalCount / limit)
TotalPages(totalCount, limit) == (totalCount + limit - 1) \div limit

\* renderPagination: the Previous and Next buttons carry the page numbers
\* of the active tab at the time of rendering (0: the button is disabled).
renderPagination(c) ==
  IF ~HasActiveTab(c) THEN c
  ELSE LET tab == getActiveTab(c)
           totalPages == TotalPages(tab.totalCount, tab.limit)
       IN [c EXCEPT !.pagination =
             IF totalPages <= 1 THEN None
             ELSE Some([prev |-> IF tab.page > 1 THEN tab.page - 1 ELSE 0,
                        next |-> IF tab.page < totalPages THEN tab.page + 1
                                 ELSE 0])]

\* Show the cached page of the active tab, or load it.
ShowActiveTab(c, caller_) ==
  LET tab == getActiveTab(c)
  IN IF tab.data # None
     THEN renderPagination(renderTable(c, tab.data[1], tab.tid))
     ELSE loadTableData(c, caller_)

EmptyState(c) ==
  [c EXCEPT !.tableView = NoTableView, !.pagination = None]

\* The tab as loadTableData leaves it after a successful response.
TabLoaded(tab, resp) ==
  LET pushed == IF TruthyCursor(tab.cursor) /\ tab.page > 1
                   /\ Len(tab.cursorHistory) < tab.page - 1
                THEN Append(tab.cursorHistory, tab.cursor[1])
                ELSE tab.cursorHistory
  IN [tab EXCEPT !.totalCount = resp.totalCount,
                 !.hasPrimaryKey = resp.hasPrimaryKey,
                 !.data = IF resp.rows = <<>> THEN None ELSE Some(resp.rows),
                 !.cursorHistory = IF TruthyCursor(resp.nextCursor)
                                   THEN pushed ELSE @,
                 !.cursor = IF TruthyCursor(resp.nextCursor)
                            THEN resp.nextCursor ELSE @]

\* loadTableData after its await, for the load f and the response resp.
LoadEnded(c, f, resp) ==
  IF resp.status # 200
  THEN hideLoading([c EXCEPT !.tableView = [kind |-> "error", tid |-> f.tid,
                                            source |-> f.tid, rows |-> <<>>],
                             !.pagination = None])
  ELSE LET c1 == [c EXCEPT !.tabs = [k \in 1..Len(c.tabs) |->
                                       IF c.tabs[k].tid = f.tid
                                       THEN TabLoaded(c.tabs[k], resp)
                                       ELSE c.tabs[k]]]
       IN IF resp.rows = <<>>
          THEN hideLoading([c1 EXCEPT !.tableView =
                                        [kind |-> "empty", tid |-> f.tid,
                                         source |-> f.tid, rows |-> <<>>],
                                      !.pagination = None])
          ELSE hideLoading(renderPagination(renderTable(c1, resp.rows, f.tid)))

\* switchToTab(index)
switchToTab(c, index) ==
  IF index < 0 \/ index >= Len(c.tabs) THEN c
  ELSE ShowActiveTab([c EXCEPT !.activeTabIndex = index,
                               !.activeConnectionId =
                                 Some(c.tabs[index + 1].connectionId)],
                     "switchToTab")

\* handleTableSelect(tableName)
handleTableSelect(c, tableName) ==
  IF c.activeConnectionId = None THEN c
  ELSE LET existing == {k \in 1..Len(c.tabs) :
                          /\ c.tabs[k].tableName = tableName
                          /\ c.tabs[k].connectionId = c.activeConnectionId[1]}
       IN IF existing # {}
          THEN switchToTab(c, (CHOOSE k \in existing :
                                 \A j \in existing : k <= j) - 1)
          ELSE loadTableData(
                 [c EXCEPT !.tabs = Append(@, NewTab(c.opened + 1,
                                                     c.activeConnectionId[1],
                                                     tableName)),
                           !.activeTabIndex = Len(c.tabs),
                           !.opened = c.opened + 1],
                 "handleTableSelect")

\* closeTab that leaves activeTabIndex alone when the last tab is closed.
closeTab_KeepsIndexWhenEmpty(c, index) ==
  IF index < 0 \/ index >= Len(c.tabs) THEN c
  ELSE LET tabWasActive == index = c.activeTabIndex
           tabs1 == Without(c.tabs, index + 1)
           lowered == IF c.activeTabIndex >= index
                      THEN c.activeTabIndex - 1 ELSE c.activeTabIndex
           floored == IF lowered < 0 THEN 0 ELSE lowered
           active == IF tabWasActive /\ floored >= Len(tabs1)
                     THEN Len(tabs1) - 1 ELSE floored
       IN IF tabs1 = <<>>
          THEN EmptyState([c EXCEPT !.tabs = tabs1])
          ELSE ShowActiveTab(
                 [c EXCEPT !.tabs = tabs1,
                           !.activeTabIndex = active,
                           !.activeConnectionId =
                             IF tabWasActive
                             THEN Some(tabs1[active + 1].connectionId) ELSE @],
                 "closeTab")

\* closeTab(index)
closeTab(c, index) ==
  IF index < 0 \/ index >= Len(c.tabs) THEN c
  ELSE LET tabWasActive == index = c.activeTabIndex
           tabs1 == Without(c.tabs, index + 1)
           lowered == IF c.activeTabIndex >= index
                      THEN c.activeTabIndex - 1 ELSE c.activeTabIndex
           floored == IF lowered < 0 THEN 0 ELSE lowered
           active == IF tabWasActive /\ floored >= Len(tabs1)
                     THEN Len(tabs1) - 1 ELSE floored
       IN IF tabs1 = <<>>
          THEN EmptyState([c EXCEPT !.tabs = tabs1, !.activeTabIndex = -1])
          ELSE ShowActiveTab(
                 [c EXCEPT !.tabs = tabs1,
                           !.activeTabIndex = active,
                           !.activeConnectionId =
                             IF tabWasActive
                             THEN Some(tabs1[active + 1].connectionId) ELSE @],
                 "closeTab")

\* closeAllTabs
closeAllTabs(c) == EmptyState([c EXCEPT !.tabs = <<>>, !.activeTabIndex = -1])

\* handleRefresh
handleRefresh(c) ==
  IF ~HasActiveTab(c) THEN c
  ELSE loadTableData([c EXCEPT !.tabs[c.activeTabIndex + 1].data = None],
                     "handleRefresh")

\* handlePageChange(newPage)
handlePageChange(c, newPage) ==
  IF ~HasActiveTab(c) THEN c
  ELSE LET tab == getActiveTab(c)
           oldPage == tab.page
           forward == newPage = oldPage + 1
           moved ==
             [tab EXCEPT
                !.page = newPage,
                !.cursor = IF tab.hasPrimaryKey /\ ~forward THEN None ELSE @,
                !.cursorHistory =
                  IF tab.hasPrimaryKey /\ ~forward
                     /\ (newPage >= oldPage \/ newPage = 1)
                  THEN <<>> ELSE @,
                !.data = None]
       IN loadTableData([c EXCEPT !.tabs[c.activeTabIndex + 1] = moved],
                        "handlePageChange")

\* handleSort(column)
handleSort(c, column) ==
  IF ~HasActiveTab(c) THEN c
  ELSE LET tab == getActiveTab(c)
           sorted ==
             [tab EXCEPT
                !.sortColumn = Some(column),
                !.sortDirection = IF tab.sortColumn = Some(column)
                                  THEN (IF @ = "asc" THEN "desc" ELSE "asc")
                                  ELSE "asc",
                !.page = 1,
                !.cursor = None,
                !.cursorHistory = <<>>]
       IN loadTableData([c EXCEPT !.tabs[c.activeTabIndex + 1] = sorted],
                        "handleSort")

\* The change listener of limitSelect, bound to the tab the table was
\* rendered for.
handleLimitChange(c, newLimit) ==
  LET at == {k \in 1..Len(c.tabs) : c.tabs[k].tid = c.tableView.tid}
  IN IF at = {} \/ (\A k \in at : c.tabs[k].limit = newLimit) THEN c
     ELSE loadTableData(
            [c EXCEPT !.tabs = [k \in 1..Len(c.tabs) |->
                                  IF k \in at
                                  THEN [c.tabs[k] EXCEPT !.limit = newLimit,
                                                         !.page = 1,
                                                         !.cursor = None,
                                                         !.cursorHistory = <<>>,
                                                         !.data = None]
                                  ELSE c.tabs[k]]],
            "limitSelect")

\* switchConnection(connectionId)
switchConnection(c, connectionId) ==
  IF c.activeConnectionId = Some(connectionId) THEN c
  ELSE LET c1 == [c EXCEPT !.activeConnectionId = Some(connectionId)]
           own == {k \in 1..Len(c.tabs) : c.tabs[k].connectionId = connectionId}
       IN IF HasActiveTab(c1) /\ getActiveTab(c1).connectionId # connectionId
          THEN IF own # {}
               THEN switchToTab(c1, (CHOOSE k \in own :
                                       \A j \in own : k <= j) - 1)
               ELSE EmptyState([c1 EXCEPT !.activeTabIndex = -1])
          ELSE c1

\* The loop of handleDisconnect: the tabs of the connection are closed from
\* the last index down to index i.
RECURSIVE CloseTabsOf(_, _, _)
CloseTabsOf(c, connectionId, i) ==
  IF i < 0 THEN c
  ELSE CloseTabsOf(IF c.tabs[i + 1].connectionId = connectionId
                   THEN closeTab(c, i) ELSE c,
                   connectionId, i - 1)

\* handleDisconnect that leaves activeConnectionId alone while connections
\* remain.
Disconnected_KeepsActive(c, connectionId) ==
  LET kept == SelectSeq(c.connections, LAMBDA id : id # connectionId)
      c1 == CloseTabsOf([c EXCEPT !.connections = kept], connectionId,
                        Len(c.tabs) - 1)
  IN IF kept = <<>> THEN [c1 EXCEPT !.activeConnectionId = None]
     ELSE c1

\* handleDisconnect after its await, the response being ok.
Disconnected(c, connectionId) ==
  LET kept == SelectSeq(c.connections, LAMBDA id : id # connectionId)
      c1 == CloseTabsOf([c EXCEPT !.connections = kept], connectionId,
                        Len(c.tabs) - 1)
  IN IF kept = <<>> THEN [c1 EXCEPT !.activeConnectionId = None]
     ELSE IF c1.activeConnectionId = Some(connectionId)
          THEN [c1 EXCEPT !.activeConnectionId = Some(kept[1])]
          ELSE c1

\* What the server answers to the fetch of a load.  The request of a load
\* that was sent before its connection was closed is served either before
\* the pool is closed or after it, when requireConnection finds no pool.
FetchResponses(f) ==
  LET served == {[call EXCEPT !.tableName = f.tableName] :
                   call \in ServeTableData(TableContent(f.connectionId,
                                                        f.tableName),
                                           TableName, f.req, {})}
      refused == [req |-> f.req, tableName |-> f.tableName, failing |-> {},
                  queries |-> <<>>, plan |-> NoQuery,
                  resp |-> [status |-> 503,
                            error |-> "Not connected to database or invalid connection ID"]]
  IN IF f.connectionId \in registry.live THEN served
     ELSE served \cup {refused}

\* A step of the browser: the client becomes c; no more than MaxFetches
\* loads are in flight and no more than MaxOpened tabs were ever opened.
Becomes(c) ==
  /\ Len(c.fetches) <= MaxFetches
  /\ c.opened <= MaxOpened
  /\ client' = c

\* The controls the overlay covers can be used.
Interactive == ~client.overlay

\* The user connects to a database in the connection dialog.
HandleConnect(connectionId) ==
  /\ connectionId \notin registry.issued
  /\ registry' = [live |-> registry.live \cup {connectionId},
                  issued |-> registry.issued \cup {connectionId}]
  /\ Becomes([client EXCEPT !.connections = Append(@, connectionId),
                            !.activeConnectionId = Some(connectionId)])
  /\ UNCHANGED <<db, log, caller, flights, server>>

\* The user picks a connection in the sidebar.
SwitchConnection(connectionId) ==
  /\ Interactive
  /\ \E k \in 1..Len(client.connections) : client.connections[k] = connectionId
  /\ client.activeConnectionId # Some(connectionId)
  /\ Becomes(switchConnection(client, connectionId))
  /\ UNCHANGED <<db, log, caller, flights, registry, server>>

\* The user clicks a table of the active connection in the sidebar.
HandleTableSelect(tableName) ==
  /\ Interactive
  /\ client.activeConnectionId # None
  /\ tableName \in TablesOf(client.activeConnectionId[1])
  /\ Becomes(handleTableSelect(client, tableName))
  /\ UNCHANGED <<db, log, caller, flights, registry, server>>

\* The user clicks a tab.
SwitchToTab(index) ==
  /\ Interactive
  /\ index \in 0..(Len(client.tabs) - 1)
  /\ Becomes(switchToTab(client, index))
  /\ UNCHANGED <<db, log, caller, flights, registry, server>>

\* The user clicks the close button of a tab.
CloseTab(index) ==
  /\ Interactive
  /\ index \in 0..(Len(client.tabs) - 1)
  /\ Becomes(closeTab(client, index))
  /\ UNCHANGED <<db, log, caller, flights, registry, server>>

\* The user clicks Close all.
CloseAllTabs ==
  /\ Interactive
  /\ client.tabs # <<>>
  /\ Becomes(closeAllTabs(client))
  /\ UNCHANGED <<db, log, caller, flights, registry, server>>

\* The user clicks the refresh button of the rendered table.
HandleRefresh ==
  /\ Interactive
  /\ client.tableView.kind = "table"
  /\ Becomes(handleRefresh(client))
  /\ UNCHANGED <<db, log, caller, flights, registry, server>>

\* The user clicks Previous or Next.
HandlePageChange(newPage) ==
  /\ Interactive
  /\ client.pagination # None
  /\ newPage # 0
  /\ newPage \in {client.pagination[1].prev, client.pagination[1].next}
  /\ Becomes(handlePageChange(client, newPage))
  /\ UNCHANGED <<db, log, caller, flights, registry, server>>

\* The user clicks a column header of the rendered table.
HandleSort(column) ==
  /\ Interactive
  /\ client.tableView.kind = "table"
  /\ Becomes(handleSort(client, column))
  /\ UNCHANGED <<db, log, caller, flights, registry, server>>

\* The user picks a number of rows per page.
HandleLimitChange(newLimit) ==
  /\ Interactive
  /\ client.tableView.kind = "table"
  /\ \E k \in 1..Len(client.tabs) :
       /\ client.tabs[k].tid = client.tableView.tid
       /\ client.tabs[k].limit # newLimit
  /\ Becomes(handleLimitChange(client, newLimit))
  /\ UNCHANGED <<db, log, caller, flights, registry, server>>

\* The user confirms the disconnect of a connection: POST /api/disconnect
\* is sent and awaited, with no overlay.
HandleDisconnect(connectionId) ==
  /\ Interactive
  /\ \E k \in 1..Len(client.connections) : client.connections[k] = connectionId
  /\ connectionId \notin client.disconnecting
  /\ Becomes([client EXCEPT !.disconnecting = @ \cup {connectionId}])
  /\ UNCHANGED <<db, log, caller, flights, registry, server>>

\* The server closes the pool and the response reaches handleDisconnect.
DisconnectResolved(connectionId) ==
  /\ connectionId \in client.disconnecting
  /\ registry' = [registry EXCEPT !.live = @ \ {connectionId}]
  /\ Becomes(Disconnected([client EXCEPT !.disconnecting = @ \ {connectionId}],
                          connectionId))
  /\ UNCHANGED <<db, log, caller, flights, server>>

\* The disconnect request fails: handleDisconnect changes nothing.
DisconnectFailed(connectionId) ==
  /\ connectionId \in client.disconnecting
  /\ Becomes([client EXCEPT !.disconnecting = @ \ {connectionId}])
  /\ UNCHANGED <<db, log, caller, flights, registry, server>>

\* The response of the k-th load in flight arrives.
LoadResolved(k) ==
  /\ k \in 1..Len(client.fetches)
  /\ LET f == client.fetches[k]
     IN \E call \in FetchResponses(f) :
          /\ log' = <<call>>
          /\ Becomes(LoadEnded([client EXCEPT !.fetches = Without(@, k)],
                               f, call.resp))
  /\ UNCHANGED <<db, caller, flights, registry, server>>

InitClient ==
  /\ db \in ClientTables
  /\ log = <<>>
  /\ caller = NotStarted
  /\ flights = IdleFlights
  /\ client = ClientInit
  /\ registry = NoConnections
  /\ server = NoServer

NextClient ==
  \/ \E connectionId \in ConnectionIds : HandleConnect(connectionId)
  \/ \E connectionId \in ConnectionIds : SwitchConnection(connectionId)
  \/ \E tableName \in {TableName, <<"e">>} : HandleTableSelect(tableName)
  \/ \E index \in 0..(MaxOpened - 1) : SwitchToTab(index)
  \/ \E index \in 0..(MaxOpened - 1) : CloseTab(index)
  \/ CloseAllTabs
  \/ HandleRefresh
  \/ \E newPage \in 1..MaxRows : HandlePageChange(newPage)
  \/ \E column \in {"grp"} : HandleSort(column)
  \/ \E newLimit \in LimitOptions : HandleLimitChange(newLimit)
  \/ \E connectionId \in ConnectionIds : HandleDisconnect(connectionId)
  \/ \E connectionId \in ConnectionIds : DisconnectResolved(connectionId)
  \/ \E connectionId \in ConnectionIds : DisconnectFailed(connectionId)
  \/ \E k \in 1..MaxFetches : LoadResolved(k)

SpecClient == InitClient /\ [][NextClient]_vars

-----------------------------------------------------------------------------
(* Paging through one table in the browser: the user connects, opens       *)
(* tables and clicks Previous and Next.  The integer keys of the table     *)
(* start below, at or above zero.                                          *)

InitPaging ==
  /\ db \in {[pk |-> pk, type |-> "integer",
              rows |-> {[id |-> ValueAt("integer", first + k),
                         grp |-> ValueAt("integer", 0)] : k \in 0..(n - 1)}] :
               pk \in {<<>>, <<"id">>}, first \in -1..1, n \in 2..MaxRows}
  /\ log = <<>>
  /\ caller = NotStarted
  /\ flights = IdleFlights
  /\ client = ClientInit
  /\ registry = NoConnections
  /\ server = NoServer

NextPaging ==
  \/ \E connectionId \in ConnectionIds : HandleConnect(connectionId)
  \/ \E tableName \in {TableName, <<"e">>} : HandleTableSelect(tableName)
  \/ \E newPage \in 1..MaxRows : HandlePageChange(newPage)
  \/ \E k \in 1..MaxFetches : LoadResolved(k)

SpecPaging == InitPaging /\ [][NextPaging]_vars

-----------------------------------------------------------------------------
(* Tabs and connections in the browser: the user connects and disconnects, *)
(* opens, switches and closes tabs, on a table of two rows.                *)

InitTabs ==
  /\ db \in {tbl \in ClientTables : Cardinality(tbl.rows) = 2}
  /\ log = <<>>
  /\ caller = NotStarted
  /\ flights = IdleFlights
  /\ client = ClientInit
  /\ registry = NoConnections
  /\ server = NoServer

NextTabs ==
  \/ \E connectionId \in ConnectionIds : HandleConnect(connectionId)
  \/ \E connectionId \in ConnectionIds : SwitchConnection(connectionId)
  \/ \E tableName \in {TableName, <<"e">>} : HandleTableSelect(tableName)
  \/ \E index \in 0..(MaxOpened - 1) : SwitchToTab(index)
  \/ \E index \in 0..(MaxOpened - 1) : CloseTab(index)
  \/ CloseAllTabs
  \/ \E connectionId \in ConnectionIds : HandleDisconnect(connectionId)
  \/ \E connectionId \in ConnectionIds : DisconnectResolved(connectionId)
  \/ \E connectionId \in ConnectionIds : DisconnectFailed(connectionId)
  \/ \E k \in 1..MaxFetches : LoadResolved(k)

SpecTabs == InitTabs /\ [][NextTabs]_vars

-----------------------------------------------------------------------------
(* The connection registry of the server (db/connection.js): the Map       *)
(* connections, the postgres clients created for it, and the calls of      *)
(* createPool, updateConnection and closePool suspended at an await.       *)

ConnectionStrings == {"s1", "s2", "bad"}

\* SELECT NOW() succeeds on the new client.
Reachable(connectionString) == connectionString # "bad"

\* getDatabaseName: the path of the URL.
getDatabaseName(connectionString) == "db-" \o connectionString

Registered(s) == DOMAIN s.connections

\* connections.set(id, entry)
MapSet(connections, id, entry) ==
  [k \in DOMAIN connections \cup {id} |->
     IF k = id THEN entry ELSE connections[k]]

Outcome(op, id, error) == [op |-> op, id |-> id, error |-> error]

\* A call suspended at an await: pool is the client it created (or, for
\* closePool, the one it is ending), existing the pool of existingConn.
Suspended(op, stage, id, pool, existing, connectionString, sslMode, name) ==
  [op |-> op, stage |-> stage, id |-> id, pool |-> pool,
   existing |-> existing, connectionString |-> connectionString,
   sslMode |-> sslMode, name |-> name]

\* createPool up to its await: a client is created and SELECT NOW() sent.
createPool(s, connectionString, sslMode, customName) ==
  [s EXCEPT !.created = @ + 1,
            !.pending = @ \cup {Suspended("createPool", "connecting", 0,
                                          s.created + 1, 0, connectionString,
                                          sslMode, customName)}]

\* The .then of createPool: the existing entry with this connection string
\* is returned (and the new client ended), or a new id is registered.
createPoolConnected(s, call) ==
  LET same == {id \in Registered(s) :
                 s.connections[id].connectionString = call.connectionString}
      existingId == CHOOSE id \in same : \A other \in same : id <= other
      id == s.issued + 1
  IN IF same # {}
     THEN [s EXCEPT !.pending = @ \ {call},
                    !.connections[existingId].name =
                      IF call.name # None /\ call.name[1] # @
                      THEN call.name[1] ELSE @,
                    !.ended = @ \cup {call.pool},
                    !.last = Outcome("createPool", existingId, "")]
     ELSE [s EXCEPT !.pending = @ \ {call},
                    !.issued = id,
                    !.connections =
                      MapSet(@, id,
                             [pool |-> call.pool,
                              name |-> IF call.name # None THEN call.name[1]
                                       ELSE getDatabaseName(call.connectionString),
                              connectionString |-> call.connectionString,
                              sslMode |-> call.sslMode]),
                    !.last = Outcome("createPool", id, "")]

\* The .catch of createPool and of updateConnection: the error is thrown on.
connectFailed(s, call) ==
  [s EXCEPT !.pending = @ \ {call},
            !.last = Outcome(call.op, call.id, "connect failed")]

\* updateConnection that ends the old pool before it tests the new client.
updateConnection_EndsOldPoolFirst(s, id, connectionString, sslMode, name) ==
  IF id \notin Registered(s)
  THEN [s EXCEPT !.last = Outcome("updateConnection", id,
                                  "Connection not found")]
  ELSE [s EXCEPT !.created = @ + 1,
                 !.ended = @ \cup {s.connections[id].pool},
                 !.pending = @ \cup {Suspended("updateConnection",
                                               "connecting", id,
                                               s.created + 1,
                                               s.connections[id].pool,
                                               connectionString, sslMode,
                                               name)}]

\* updateConnection up to its await: 'Connection not found', or a client
\* is created and SELECT NOW() sent.
updateConnection(s, id, connectionString, sslMode, name) ==
  IF id \notin Registered(s)
  THEN [s EXCEPT !.last = Outcome("updateConnection", id,
                                  "Connection not found")]
  ELSE [s EXCEPT !.created = @ + 1,
                 !.pending = @ \cup {Suspended("updateConnection",
                                               "connecting", id,
                                               s.created + 1,
                                               s.connections[id].pool,
                                               connectionString, sslMode,
                                               name)}]

\* The .then of updateConnection up to its await: the old pool is ended.
updateConnected(s, call) ==
  [s EXCEPT !.ended = @ \cup {call.existing},
            !.pending = (@ \ {call}) \cup {[call EXCEPT !.stage = "ending"]}]

\* The .then of updateConnection after its await: connections.set(id, ...).
updateOldPoolEnded(s, call) ==
  [s EXCEPT !.pending = @ \ {call},
            !.connections =
              MapSet(@, call.id,
                     [pool |-> call.pool,
                      name |-> IF call.name # None THEN call.name[1]
                               ELSE getDatabaseName(call.connectionString),
                      connectionString |-> call.connectionString,
                      sslMode |-> call.sslMode]),
            !.last = Outcome("updateConnection", call.id, "")]

\* closePool(connectionId) up to its await: the pool of the entry is ended.
closePool(s, connectionId) ==
  IF connectionId \notin Registered(s) THEN s
  ELSE [s EXCEPT !.ended = @ \cup {s.connections[connectionId].pool},
                 !.pending = @ \cup {Suspended("closePool", "ending",
                                               connectionId,
                                               s.connections[connectionId].pool,
                                               0, "", "", None)}]

ServerIds == 1..MaxPools

\* POST /api/connect
CreatePool(connectionString, sslMode, customName) ==
  /\ server.created < MaxPools
  /\ server' = createPool(server, connectionString, sslMode, customName)
  /\ UNCHANGED <<db, log, caller, flights, client, registry>>

\* SELECT NOW() of a createPool settles.
CreatePoolSettled(call) ==
  /\ call \in server.pending
  /\ call.op = "createPool"
  /\ server' = IF Reachable(call.connectionString)
               THEN createPoolConnected(server, call)
               ELSE connectFailed(server, call)
  /\ UNCHANGED <<db, log, caller, flights, client, registry>>

\* PUT /api/connections/:id, for an id that was issued or for one id that
\* never was.
UpdateConnection(id, connectionString, sslMode, name) ==
  /\ id <= server.issued + 1
  /\ id \in Registered(server) => server.created < MaxPools
  /\ server' = updateConnection(server, id, connectionString, sslMode, name)
  /\ UNCHANGED <<db, log, caller, flights, client, registry>>

\* SELECT NOW() of an updateConnection settles.
UpdateSettled(call) ==
  /\ call \in server.pending
  /\ call.op = "updateConnection" /\ call.stage = "connecting"
  /\ server' = IF Reachable(call.connectionString)
               THEN updateConnected(server, call)
               ELSE connectFailed(server, call)
  /\ UNCHANGED <<db, log, caller, flights, client, registry>>

\* existingConn.pool.end() of an updateConnection resolves.
UpdateOldPoolEnded(call) ==
  /\ call \in server.pending
  /\ call.op = "updateConnection" /\ call.stage = "ending"
  /\ server' = updateOldPoolEnded(server, call)
  /\ UNCHANGED <<db, log, caller, flights, client, registry>>

\* POST /api/disconnect
ClosePool(connectionId) ==
  /\ connectionId \in Registered(server)
  /\ server' = closePool(server, connectionId)
  /\ UNCHANGED <<db, log, caller, flights, client, registry>>

\* conn.pool.end() of a closePool resolves: connections.delete(connectionId).
ClosePoolEnded(call) ==
  /\ call \in server.pending
  /\ call.op = "closePool"
  /\ server' = [server EXCEPT
                  !.pending = @ \ {call},
                  !.connections = [k \in DOMAIN @ \ {call.id} |-> @[k]]]
  /\ UNCHANGED <<db, log, caller, flights, client, registry>>

InitRegistry ==
  /\ db \in {tbl \in Tables : tbl.rows = {} /\ tbl.pk = <<>>
                              /\ tbl.type = "integer"}
  /\ log = <<>>
  /\ caller = NotStarted
  /\ flights = IdleFlights
  /\ client = ClientInit
  /\ registry = NoConnections
  /\ server = NoServer

NextRegistry ==
  \/ \E connectionString \in ConnectionStrings, customName \in {None, Some("n")} :
       CreatePool(connectionString, "prefer", customName)
  \/ \E id \in ServerIds, connectionString \in ConnectionStrings :
       UpdateConnection(id, connectionString, "require", None)
  \/ \E connectionId \in ServerIds : ClosePool(connectionId)
  \/ \E call \in server.pending :
       \/ CreatePoolSettled(call)
       \/ UpdateSettled(call)
       \/ UpdateOldPoolEnded(call)
       \/ ClosePoolEnded(call)

SpecRegistry == InitRegistry /\ [][NextRegistry]_vars

-----------------------------------------------------------------------------
(* Vocabulary of the properties.                                           *)

Calls == {log[k] : k \in 1..Len(log)}

\* page and limit are integers >= 1.
ValidPaging(req) ==
  /\ ~PageOf(req).nan /\ PageOf(req).n >= 1
  /\ ~LimitOf(req).nan /\ LimitOf(req).n >= 1

\* The request names a column of the table as its sortColumn.
SortsByColumn(req) == req.sortColumn # None /\ req.sortColumn[1] \in ColumnNames

\* The request carries a cursor that is a value of the key column's type.
CursorSupplied(req) == req.cursor # None /\ ValidLiteral(db.type, req.cursor[1])

HasPk == db.pk # <<>>

PkAsc == <<[col |-> Head(db.pk), dir |-> "ASC"]>>

\* The primary-key value of the last row, or null when there is no row.
LastKey(rows) ==
  IF rows = <<>> THEN None ELSE Some(rows[Len(rows)][Head(db.pk)])

Ok(call) == call.resp.status = 200

-----------------------------------------------------------------------------
(* C1: every request that passes validation and names a column of the      *)
(* table as sortColumn is served by the sorted strategy: ordered by        *)
(* sortColumn first, LIMIT limit OFFSET (page-1)*limit, no key predicate,  *)
(* and a response carries nextCursor = null; whatever the page, the cursor *)
(* and the primary key are.                                                *)
SortedAlwaysOffset ==
  \A call \in Calls :
    (call.resp.status # 400 /\ SortsByColumn(call.req)) =>
      /\ call.plan.branch = "sorted"
      /\ call.plan.where = None
      /\ Head(call.plan.orderBy).col = call.req.sortColumn[1]
      /\ call.plan.limit = LimitOf(call.req)
      /\ call.plan.offset = Some(OffsetOf(PageOf(call.req), LimitOf(call.req)))
      /\ (Ok(call) => call.resp.nextCursor = None)

\* A sorted request with a cursor, on a table with a primary key, for a page
\* beyond the first, was served and returned rows.
SortedWithCursorServed ==
  \E call \in Calls :
    /\ SortsByColumn(call.req) /\ Truthy(call.req.cursor) /\ HasPk
    /\ PageOf(call.req) = Num(2)
    /\ Ok(call) /\ call.resp.rows # <<>>

(* C2: every valid request without sortColumn, on a table with a primary   *)
(* key and with a cursor supplied, is served by the cursor query (key >    *)
(* cursor, ordered by the key ascending, LIMIT limit, no OFFSET) whatever  *)
(* the page is, and nextCursor is the key of the last returned row, or     *)
(* null when no row is returned.                                           *)
CursorSuppliedUsesCursorQuery ==
  \A call \in Calls :
    (ValidPaging(call.req) /\ call.req.sortColumn = None /\ HasPk
       /\ CursorSupplied(call.req)) =>
      /\ call.plan.branch = "cursor"
      /\ call.plan.where = Some([col |-> Head(db.pk), op |-> ">",
                                 val |-> call.req.cursor[1]])
      /\ call.plan.orderBy = PkAsc
      /\ call.plan.limit = LimitOf(call.req)
      /\ call.plan.offset = None
      /\ Ok(call)
      /\ call.resp.nextCursor = LastKey(call.resp.rows)

(* C3: on a table with a primary key, a valid request for page 1 with no   *)
(* cursor and no sortColumn is served by the first-page query (ordered by  *)
(* the key ascending, LIMIT limit, no predicate, no offset) and nextCursor *)
(* is the key of the last returned row, null exactly when the table is     *)
(* empty.                                                                  *)
FirstPageStrategy ==
  \A call \in Calls :
    (ValidPaging(call.req) /\ HasPk /\ PageOf(call.req) = Num(1)
       /\ call.req.cursor = None /\ call.req.sortColumn = None) =>
      /\ call.plan.branch = "firstPage"
      /\ call.plan.where = None
      /\ call.plan.orderBy = PkAsc
      /\ call.plan.limit = LimitOf(call.req)
      /\ call.plan.offset = None
      /\ Ok(call)
      /\ call.resp.nextCursor = LastKey(call.resp.rows)
      /\ (call.resp.nextCursor = None <=> db.rows = {})

\* A first page that holds fewer rows than the table was served.
FirstPageServed ==
  \E call \in Calls :
    /\ HasPk /\ PageOf(call.req) = Num(1)
    /\ call.req.cursor = None /\ call.req.sortColumn = None
    /\ Ok(call) /\ call.resp.rows # <<>>
    /\ Len(call.resp.rows) < Cardinality(db.rows)

(* C4: a valid request without sortColumn that matches neither the cursor  *)
(* rule nor the first-page rule (no primary key, or a page beyond the      *)
(* first with no cursor) is served with LIMIT limit OFFSET (page-1)*limit, *)
(* ordered by the key ascending exactly when the table has a primary key;  *)
(* nextCursor is the last returned row's key when there is a primary key   *)
(* and a row, and null otherwise.                                          *)
FallbackStrategy ==
  \A call \in Calls :
    (ValidPaging(call.req) /\ call.req.sortColumn = None
       /\ (~HasPk \/ (PageOf(call.req).n > 1 /\ call.req.cursor = None))) =>
      /\ call.plan.branch = "fallback"
      /\ call.plan.where = None
      /\ call.plan.orderBy = (IF HasPk THEN PkAsc ELSE <<>>)
      /\ call.plan.limit = LimitOf(call.req)
      /\ call.plan.offset =
           Some(Num((PageOf(call.req).n - 1) * LimitOf(call.req).n))
      /\ Ok(call)
      /\ call.resp.nextCursor =
           (IF HasPk THEN LastKey(call.resp.rows) ELSE None)

\* Page 2 of a table with a primary key was asked for without a cursor and
\* returned rows.
FallbackServedWithKey ==
  \E call \in Calls :
    /\ HasPk /\ PageOf(call.req) = Num(2)
    /\ call.req.cursor = None /\ call.req.sortColumn = None
    /\ Ok(call) /\ call.resp.rows # <<>>

(* C8: on a table with no rows every valid request (with or without a      *)
(* primary key, any page, with or without cursor or sortColumn) is         *)
(* answered without error with rows = [], totalCount = 0 and nextCursor =  *)
(* null.                                                                   *)
EmptyTableResponse ==
  \A call \in Calls :
    (db.rows = {} /\ ValidPaging(call.req)
       /\ (call.req.sortColumn = None \/ SortsByColumn(call.req))
       /\ (~Truthy(call.req.cursor) \/ CursorSupplied(call.req))) =>
      /\ Ok(call)
      /\ call.resp.rows = <<>>
      /\ call.resp.totalCount = 0
      /\ call.resp.nextCursor = None

\* An empty table with a primary key was asked for a later page with a
\* cursor.
EmptyTableServed ==
  \E call \in Calls :
    /\ db.rows = {} /\ HasPk /\ CursorSupplied(call.req)
    /\ call.req.sortColumn = None
    /\ PageOf(call.req) = Num(2)
    /\ Ok(call)

(* C10: a request whose sortColumn is set and is not a column of the table *)
(* is rejected with HTTP 400 'Invalid sort column'.                        *)
UnknownSortColumnRejected ==
  \A call \in Calls :
    (ValidPaging(call.req) /\ TruthyName(call.req.sortColumn)
       /\ ~SortsByColumn(call.req)) =>
      /\ call.resp.status = 400
      /\ call.resp.error = "Invalid sort column"

\* A valid request naming a sortColumn the table does not have was served.
UnknownSortColumnSeen ==
  \E call \in Calls :
    /\ ValidPaging(call.req) /\ TruthyName(call.req.sortColumn)
    /\ ~SortsByColumn(call.req)

-----------------------------------------------------------------------------
(* Forward traversals of the caller.                                       *)

\* The calls so far are pages 1, 2, 3 .. in default order, each after the
\* first sent with the nextCursor of the response before it, all answered.
ForwardChain ==
  /\ log # <<>>
  /\ log[1].req.cursor = None
  /\ \A k \in 1..Len(log) :
       /\ PageOf(log[k].req) = Num(k)
       /\ log[k].req.sortColumn = None
       /\ Ok(log[k])
       /\ k > 1 => log[k].req.cursor = log[k - 1].resp.nextCursor

ChainLimit == LimitOf(log[1].req).n

\* No two rows share a value in the key column the server pages by.
KeyColumnUnique ==
  \A r1, r2 \in db.rows : r1[Head(db.pk)] = r2[Head(db.pk)] => r1 = r2

\* The rows at positions (k-1)*limit+1 .. min(k*limit, n) of an order.
PageOfOrder(order, k) ==
  SubSeq(order, (k - 1) * ChainLimit + 1, Min(k * ChainLimit, Len(order)))

(* C5: on a table with a primary key, a request that carries the           *)
(* nextCursor of the prior response as its cursor, for the page after the  *)
(* prior one and without sortColumn, is served by the cursor strategy and  *)
(* returns only rows whose key is greater than the key K of the prior      *)
(* page's last row, so none of the prior page's rows.                      *)
NextCursorRequestUsesCursor ==
  \A k \in 2..Len(log) :
    LET prior == log[k - 1]
        cur == log[k]
    IN (HasPk /\ Ok(prior) /\ prior.resp.nextCursor # None
          /\ cur.req.cursor = prior.resp.nextCursor
          /\ cur.req.sortColumn = None
          /\ PageOf(cur.req) = Num(PageOf(prior.req).n + 1)) =>
         /\ cur.plan.branch = "cursor"
         /\ Ok(cur)
         /\ \A i \in 1..Len(cur.resp.rows) :
              /\ ValueLess(db.type, prior.resp.nextCursor[1],
                           cur.resp.rows[i][Head(db.pk)])
              /\ \A j \in 1..Len(prior.resp.rows) :
                   cur.resp.rows[i] # prior.resp.rows[j]

(* C6: on an unchanging table with a primary key, a traversal that starts  *)
(* at page 1 and asks for each next page with the previous nextCursor gets *)
(* on page k exactly the rows at positions (k-1)*limit+1 .. min(k*limit,   *)
(* n) of the primary-key order: no row is skipped, none comes twice.       *)
ForwardTraversalPositions ==
  (HasPk /\ ForwardChain) =>
    \E order \in Orderings(db.type, db.rows, PkAsc) :
      \A k \in 1..Len(log) : log[k].resp.rows = PageOfOrder(order, k)

(* C6 as amended: the same, for a table where the key column the server    *)
(* pages by holds no duplicate values.                                     *)
ForwardTraversalUniqueKey ==
  (HasPk /\ KeyColumnUnique /\ ForwardChain) =>
    \E order \in Orderings(db.type, db.rows, PkAsc) :
      \A k \in 1..Len(log) : log[k].resp.rows = PageOfOrder(order, k)

\* A traversal over unique keys reached, through the cursor query, a last
\* page that is only partly filled.
TraversalReachedPartialPage ==
  /\ HasPk /\ KeyColumnUnique /\ ForwardChain
  /\ \E k \in 2..Len(log) :
       /\ log[k].plan.branch = "cursor"
       /\ Len(log[k].resp.rows) > 0
       /\ Len(log[k].resp.rows) < ChainLimit

(* C7: on a forward cursor traversal the response for the last page that   *)
(* still contains rows has nextCursor = null.                              *)
LastPageNullCursor ==
  (HasPk /\ KeyColumnUnique /\ ForwardChain) =>
    \A k \in 1..Len(log) :
      (/\ log[k].plan.branch = "cursor"
       /\ log[k].resp.rows # <<>>
       /\ k * ChainLimit >= Cardinality(db.rows)) =>
        log[k].resp.nextCursor = None

(* C7 as amended: on a forward cursor traversal every page that contains   *)
(* rows, the last one included, carries its last row's key as nextCursor;  *)
(* nextCursor is null exactly on a response with zero rows, which is the   *)
(* one that signals the end of data.                                       *)
NullCursorOnlyOnEmptyPage ==
  (HasPk /\ ForwardChain) =>
    \A k \in 1..Len(log) :
      /\ log[k].resp.nextCursor = LastKey(log[k].resp.rows)
      /\ (log[k].resp.nextCursor = None <=> log[k].resp.rows = <<>>)

\* A traversal went through the last page with rows, by the cursor query,
\* and then through an empty page.
TraversalPassedTheEnd ==
  /\ HasPk /\ ForwardChain
  /\ \E k \in 2..(Len(log) - 1) :
       /\ log[k].plan.branch = "cursor"
       /\ log[k].resp.rows # <<>>
       /\ log[k + 1].plan.branch = "cursor"
       /\ log[k + 1].resp.rows = <<>>

\* Page 1 was requested twice with no cursor.
FirstPageTwice ==
  /\ Len(log) = 2
  /\ log[2].req = log[1].req
  /\ PageOf(log[1].req) = Num(1)
  /\ log[1].req.cursor = None

(* C9: requesting page 1 with no cursor twice against an unchanged table   *)
(* gives two identical responses (same rows, totalCount, nextCursor).      *)
FirstPageIdempotent == FirstPageTwice => log[2].resp = log[1].resp

(* C9 as amended: the two responses are identical when the table has a     *)
(* primary key and the key column the server pages by holds no duplicate   *)
(* values.                                                                 *)
FirstPageIdempotentUniqueKey ==
  (FirstPageTwice /\ HasPk /\ KeyColumnUnique) => log[2].resp = log[1].resp

\* Page 1 of a table with several rows and unique keys was served twice.
FirstPageServedTwice ==
  /\ FirstPageTwice /\ HasPk /\ KeyColumnUnique
  /\ Ok(log[1]) /\ Ok(log[2])
  /\ Len(log[1].resp.rows) >= 2


-----------------------------------------------------------------------------
(* Validation and metadata failures.                                       *)

WellFormedName(tableName) ==
  tableName # <<>> /\ \A i \in 1..Len(tableName) : tableName[i] \in IdentifierChars

ClientError(resp) == resp.status \in 400..499

\* page or limit parses to an integer below 1.
NonPositivePaging(req) ==
  \/ ~PageOf(req).nan /\ PageOf(req).n < 1
  \/ ~LimitOf(req).nan /\ LimitOf(req).n < 1

\* C11: a table name holding a character outside [A-Za-z0-9_.] is rejected
\* with a client error (4xx), not a server error.
InvalidIdentifierIsClientError ==
  \A call \in Calls :
    ~WellFormedName(call.tableName) => ClientError(call.resp)

\* C12: a request whose page or limit is an integer below 1 is answered
\* with HTTP 400 and 'Page and limit must be positive integers'.
NonPositivePagingRejected ==
  \A call \in Calls :
    WellFormedName(call.tableName) /\ NonPositivePaging(call.req) =>
      call.resp = [status |-> 400,
                   error |-> "Page and limit must be positive integers"]

NonPositiveLimitSeen ==
  \E call \in Calls :
    /\ WellFormedName(call.tableName)
    /\ PageOf(call.req) = Num(1)
    /\ LimitOf(call.req).n < 1
    /\ call.resp.status = 400

\* The request was turned down by a validation: of the identifier, of page
\* and limit, or of the sort column.
ValidationError(call) ==
  \/ ~WellFormedName(call.tableName)
  \/ call.resp.status = 400

\* C13: every validation error is detected before any query is executed
\* through the connection.
ValidationBeforeAnyQuery ==
  \A call \in Calls : ValidationError(call) => call.queries = <<>>

\* C13 (amended): identifier and page/limit errors are detected before any
\* query is sent; an unknown sort column is detected after the metadata
\* lookups and before the count and data queries.
ValidationBeforeDataQueries ==
  \A call \in Calls :
    ValidationError(call) =>
      /\ call.plan = NoQuery
      /\ \A k \in 1..Len(call.queries) : call.queries[k] \notin {"count", "data"}
      /\ call.resp.error # "Invalid sort column" => call.queries = <<>>

SortColumnRejectedAfterLookups ==
  \E call \in Calls :
    /\ call.resp.status = 400
    /\ call.resp.error = "Invalid sort column"
    /\ call.queries # <<>>

\* C14: totalCount is the number of rows of the whole table whatever the
\* strategy, and isApproximate is false.
TotalCountIsWholeTable ==
  \A call \in Calls :
    Ok(call) =>
      /\ call.resp.totalCount = Cardinality(db.rows)
      /\ call.resp.isApproximate = FALSE

CursorPageCountsWholeTable ==
  \E call \in Calls :
    /\ Ok(call)
    /\ call.plan.branch = "cursor"
    /\ Len(call.resp.rows) < call.resp.totalCount

\* The request is one the handler serves when every query succeeds.
Servable(req) ==
  /\ ValidPaging(req)
  /\ req.sortColumn = None \/ SortsByColumn(req)
  /\ Truthy(req.cursor) => ValidLiteral(db.type, req.cursor[1])

\* The constraint lookups: primary key (twice), foreign keys, unique.
ConstraintLookups == {"primaryKey", "primaryKeys", "foreignKeys", "unique"}

\* C15: when constraint lookups fail the request still succeeds and returns
\* rows, with the failed sub-result empty.
ConstraintLookupFailureDegrades ==
  \A call \in Calls :
    /\ Servable(call.req)
    /\ call.failing # {}
    /\ call.failing \subseteq ConstraintLookups
    => /\ Ok(call)
       /\ \A k \in 1..Len(call.resp.rows) : call.resp.rows[k] \in db.rows
       /\ call.resp.totalCount = Cardinality(db.rows)
       /\ "primaryKey" \in call.failing => ~call.resp.hasPrimaryKey
       /\ \A c \in ColumnNames :
            /\ "primaryKeys" \in call.failing => ~call.resp.columns[c].isPrimaryKey
            /\ "foreignKeys" \in call.failing =>
                 /\ ~call.resp.columns[c].isForeignKey
                 /\ call.resp.columns[c].foreignKeyRef = None
            /\ "unique" \in call.failing => ~call.resp.columns[c].isUnique

AllConstraintLookupsFailed ==
  \E call \in Calls :
    /\ call.failing = ConstraintLookups
    /\ Ok(call)
    /\ HasPk
    /\ call.resp.rows # <<>>

\* C16: a failure of the column-list query fails the request; the request
\* is not served with an empty column set.
ColumnListFailureFailsRequest ==
  \A call \in Calls :
    /\ WellFormedName(call.tableName)
    /\ ValidPaging(call.req)
    /\ "columns" \in call.failing
    => call.resp.status = 500

-----------------------------------------------------------------------------
(* Concurrent requests.                                                    *)

\* C17: under any interleaving of concurrent page requests, each response
\* is one the same request gets when it is served alone on the same table.
IsolatedResponses ==
  \A call \in Calls :
    call.resp \in {alone.resp : alone \in HandleTableData(db, call.req)}

OverlappingRequestsServed ==
  /\ Len(log) = 2
  /\ log[1].req # log[2].req
  /\ Ok(log[1]) /\ Ok(log[2])
  /\ \A i \in RequestIds : flights.stage[i] = "done"
  /\ \E i \in RequestIds : flights.overlapped[i]

-----------------------------------------------------------------------------
(* The loading overlay and the refresh button of the client.               *)

\* C19: while a table-data fetch is in flight the loading overlay is shown,
\* and no second table-data fetch starts before the one in flight has
\* completed.
OverlayCoversEveryFetch ==
  /\ client.fetches # <<>> => client.overlay
  /\ Len(client.fetches) <= 1

\* C20: on a table with a primary key shown in default order, the load
\* that handleRefresh starts ends with the rows that were shown before it,
\* whatever the page.
RefreshShowsSameRows ==
  [][\A k \in 1..Len(client.fetches) :
       LET f == client.fetches[k]
       IN (/\ LoadResolved(k)
           /\ Len(client.fetches) = 1
           /\ f.caller = "handleRefresh"
           /\ f.connectionId = "A" /\ f.tableName = TableName
           /\ HasPk
           /\ f.req.sortColumn = None
           /\ client.tableView.kind = "table"
           /\ client.tableView.tid = f.tid /\ client.tableView.source = f.tid)
          => /\ client'.tableView.kind = "table"
             /\ client'.tableView.rows = client.tableView.rows]_vars

-----------------------------------------------------------------------------
(* Pagination parameters that reach the queries.                           *)

\* C26: every count or data query belongs to a request whose page and
\* limit are integers >= 1; a request whose page or limit does not parse to
\* a positive integer never reaches query execution.
QueriesOnlyForPositivePaging ==
  \A call \in Calls :
    (\E k \in 1..Len(call.queries) : call.queries[k] \in {"count", "data"})
      => ValidPaging(call.req)

-----------------------------------------------------------------------------
(* The connection registry.                                                *)

\* C23: an updateConnection that fails because the new connection string
\* cannot be connected to leaves the entry of the id (pool, name,
\* connection string, sslMode) as it is and does not end the old pool; an
\* updateConnection of an id that is not registered fails with
\* 'Connection not found' and changes nothing.
FailedUpdateChangesNothing ==
  [][/\ \A id \in ServerIds, connectionString \in ConnectionStrings :
          (/\ id \notin Registered(server) \/ ~Reachable(connectionString)
           /\ UpdateConnection(id, connectionString, "require", None))
          => /\ server'.connections = server.connections
             /\ server'.ended = server.ended
             /\ id \notin Registered(server) =>
                  /\ server'.last = Outcome("updateConnection", id,
                                            "Connection not found")
                  /\ server'.pending = server.pending
                  /\ server'.created = server.created
     /\ \A call \in server.pending :
          (/\ call.op = "updateConnection"
           /\ ~Reachable(call.connectionString)
           /\ UpdateSettled(call))
          => /\ server'.connections = server.connections
             /\ server'.ended = server.ended
             /\ server'.last = Outcome("updateConnection", call.id,
                                       "connect failed")]_vars

UpdateFailedOnLiveConnection ==
  /\ server.last.op = "updateConnection"
  /\ server.last.error = "connect failed"
  /\ server.last.id \in Registered(server)
  /\ server.connections[server.last.id].pool \notin server.ended
  /\ server.connections[server.last.id].sslMode = "prefer"

\* C27: no two entries of the registry hold the same connection string.
UniqueConnectionStrings ==
  \A id, other \in Registered(server) :
    server.connections[id].connectionString =
      server.connections[other].connectionString => id = other

\* C28: an id that closePool has removed from the registry stays absent:
\* no call that was in flight registers it again.
ClosedIdStaysAbsent ==
  [][\A id \in 1..server.issued :
       id \notin Registered(server) => id \notin DOMAIN server'.connections]_vars

-----------------------------------------------------------------------------
(* Paging in the browser.                                                  *)

\* The tab of the client c that the load f was started for, if still open.
TabsOfLoad(c, f) == {k \in 1..Len(c.tabs) : c.tabs[k].tid = f.tid}

\* The rows of db at positions (P-1)*limit+1 .. P*limit of the key order.
RankOf(r) ==
  1 + Cardinality({q \in db.rows : ValueLess(db.type, q.id, r.id)})

ExpectedPage(P, limit) ==
  {r \in db.rows : RankOf(r) \in ((P - 1) * limit + 1)..(P * limit)}

\* C25: after every successful load whose response carries a nextCursor
\* that is not null, the cursor of the tab is that nextCursor, whatever the
\* key value.
CursorFollowsNextCursor ==
  [][\A k \in 1..Len(client.fetches) :
       LET f == client.fetches[k]
       IN (/\ LoadResolved(k)
           /\ Ok(log'[1])
           /\ log'[1].resp.nextCursor # None)
          => \A j \in TabsOfLoad(client', f) :
               client'.tabs[j].cursor = log'[1].resp.nextCursor]_vars

\* C21: a Next click from a loaded page of a table with a primary key in
\* default order sends the cursor of the tab and is served by the cursor
\* strategy; a Previous click or a jump sends no cursor and is served by the
\* offset strategy.
NextClickUsesCursor ==
  [][/\ \A newPage \in 1..MaxRows :
          (/\ HandlePageChange(newPage)
           /\ HasActiveTab(client)
           /\ HasPk
           /\ getActiveTab(client).connectionId = "A"
           /\ getActiveTab(client).tableName = TableName
           /\ getActiveTab(client).hasPrimaryKey
           /\ getActiveTab(client).sortColumn = None
           /\ getActiveTab(client).data # None)
          => LET tab == getActiveTab(client)
                 f == client'.fetches[Len(client'.fetches)]
             IN IF newPage = tab.page + 1
                THEN f.req.cursor # None /\ f.req.cursor = tab.cursor
                ELSE f.req.cursor = None
     /\ \A k \in 1..Len(client.fetches) :
          LET f == client.fetches[k]
          IN (/\ LoadResolved(k)
              /\ f.caller = "handlePageChange"
              /\ Ok(log'[1]))
             => IF f.req.cursor # None
                THEN log'[1].plan.branch = "cursor"
                ELSE log'[1].plan.branch # "cursor"]_vars

\* C24: on a table with a primary key, after any sequence of Next and
\* Previous clicks in default order, the rows displayed for page P are the
\* rows at positions (P-1)*limit+1 .. P*limit of the primary-key order.
PagesFollowKeyOrder ==
  (/\ HasPk
   /\ client.tableView.kind = "table"
   /\ client.fetches = <<>>
   /\ HasActiveTab(client)
   /\ getActiveTab(client).tid = client.tableView.tid
   /\ getActiveTab(client).tid = client.tableView.source
   /\ getActiveTab(client).connectionId = "A"
   /\ getActiveTab(client).tableName = TableName
   /\ getActiveTab(client).sortColumn = None)
  => LET tab == getActiveTab(client)
         rows == client.tableView.rows
     IN /\ {rows[i] : i \in 1..Len(rows)} = ExpectedPage(tab.page, tab.limit)
        /\ \A i, j \in 1..Len(rows) :
             i < j => ValueLess(db.type, rows[i].id, rows[j].id)

-----------------------------------------------------------------------------
(* Tabs and connections in the browser.                                    *)

\* C29: the rows of a table-data response are only drawn for the tab that
\* requested them: the rows displayed for the active tab come from a load
\* (or the cache) of that tab, so of its own table and connection.
RenderedForRequestingTab ==
  client.tableView.kind = "table" =>
    client.tableView.tid = client.tableView.source

\* C30: after any sequence of tab operations (open, switch, close, close
\* all, disconnect, switch connection) activeTabIndex is -1 or an index of
\* tabs, and it is -1 whenever there is no tab.
ActiveTabIndexValid ==
  /\ client.activeTabIndex \in -1..(Len(client.tabs) - 1)
  /\ client.tabs = <<>> => client.activeTabIndex = -1

TabClosedOthersRemain ==
  /\ client.opened > Len(client.tabs)
  /\ client.tabs # <<>>
  /\ client.activeTabIndex = Len(client.tabs) - 1

\* C22: when the disconnect of a connection has succeeded, no open tab
\* belongs to the connection, the connection is not in the connection list
\* and it is not the active connection; the active connection is null
\* exactly when no connection remains.
DisconnectRemovesConnection ==
  [][\A connectionId \in ConnectionIds :
       DisconnectResolved(connectionId)
       => /\ \A k \in 1..Len(client'.tabs) :
               client'.tabs[k].connectionId # connectionId
          /\ \A k \in 1..Len(client'.connections) :
               client'.connections[k] # connectionId
          /\ client'.activeConnectionId # Some(connectionId)
          /\ client'.activeConnectionId = None <=> client'.connections = <<>>]_vars

DisconnectedWithTabsLeft ==
  /\ registry.issued \ registry.live # {}
  /\ client.disconnecting = {}
  /\ client.opened > Len(client.tabs)
  /\ client.tabs # <<>>
  /\ client.connections # <<>>

=============================================================================
